---- MODULE Spec2Model ----
(***************************************************************************)
(* A model of the moderation bot: the moderation state machine of          *)
(* handlers/moderation.py and handlers/badwords.py over the ORM User rows   *)
(* (database/models.py), and the experience engine of utils/experience.py   *)
(* over the users table of database/database.py.                            *)
(***************************************************************************)
EXTENDS Integers, Sequences, FiniteSets, Bags, TLC

(***************************************************************************)
(* Program constants.                                                       *)
(***************************************************************************)
\* config.MAX_WARNINGS; handlers/moderation.py imports it as WARN_LIMIT
WARN_LIMIT == 3
\* config.DEFAULT_BAN_TIME; handlers/moderation.py imports it as BAN_DURATION_DEFAULT
BAN_DURATION_DEFAULT == 86400
\* config.DEFAULT_MUTE_TIME; handlers/moderation.py imports it as MUTE_DURATION_DEFAULT
MUTE_DURATION_DEFAULT == 3600
\* moderator_user_id written by the bad-word filter for a system action
SYSTEM_ID == 0
\* config.py, experience system
XP_PER_MESSAGE_MIN == 5
XP_PER_MESSAGE_MAX == 20
XP_COOLDOWN == 20
STICKER_UNLOCK_LEVEL == 25
\* config.py, multiplier limits and default, in hundredths (0.1, 10.0, 1.0)
MIN_XP_MULTIPLIER == 10
MAX_XP_MULTIPLIER == 1000
DEFAULT_XP_MULTIPLIER == 100
\* the column defaults of the users table
DEFAULT_EXPERIENCE == 0
DEFAULT_LEVEL == 1
DEFAULT_LAST_XP_TIME == 0

(***************************************************************************)
(* Bounds of the model.                                                     *)
(***************************************************************************)
\* the clock starts here (seconds; any instant later than one cooldown)
StartTime == 1000
\* the clock stops after this many cooldown windows
MaxWindows == 1
\* at most this many rows in moderation_actions
MaxActions == 6
\* at most this many inbound events reach the experience engine
MaxEvents == 4
\* the largest experience_change of the level specification
MaxChange == 250
\* the rows of bans
MaxBans == 3
\* the rows of ticket_responses
MaxReplies == 2

\* the value of a nullable column that is NULL
None == 0 - 1

UserIds == {1}
Target == CHOOSE u \in UserIds : TRUE
\* the Telegram id of the calling moderator or administrator
Callers == {2}
CallerId == CHOOSE c \in Callers : TRUE
UserRoles == {"member", "moderator", "admin"}
Severities == {"warn", "mute", "ban"}

\* the concurrently running invocations of ExperienceHandler.__call__
Tasks == {1, 2}
\* the concurrently handled /warn commands
WarnTasks == {1, 2}
\* what an inbound event can be
EventKinds == {"text", "command", "notext", "bot"}

VARIABLES
    now,                 \* the wall clock (datetime.utcnow(), time.time(), strftime('%s','now'))
    User,                \* models.User rows: user_id -> row
    moderation_actions,  \* models.ModerationAction rows (a bag: ids and created_at left out)
    users,               \* the users table of init_db: user_id -> row
    message_stats,       \* message_count of the user's row of today in message_stats
    task,                \* per invocation of ExperienceHandler.__call__: position and locals
    admin,               \* the invocation of modify_user_experience: position and locals
    delivered,           \* the number of inbound events so far
    experience_multipliers,  \* models.ExperienceMultiplier rows: user_id -> row
    warn_task,           \* per concurrently handled /warn: position and locals
    bans,                \* the bans table of init_db (a bag: ids and ban_date left out)
    tickets,             \* models.Ticket rows: id -> row
    ticket_responses,    \* the number of models.TicketResponse rows
    sent,                \* the number of replies sent to the ticket's author
    ticket_task          \* per moderator, the ticket handler running: position and locals

modVars == <<User, moderation_actions>>
xpVars == <<users, message_stats, task, admin, delivered>>
admVars == <<experience_multipliers>>
banVars == <<bans>>
tktVars == <<tickets, ticket_responses, sent, ticket_task>>
vars == <<now, User, moderation_actions, users, message_stats, task, admin, delivered,
          experience_multipliers, warn_task, bans, tickets, ticket_responses, sent,
          ticket_task>>

(***************************************************************************)
(* The clock.                                                               *)
(***************************************************************************)
\* the instants the clock is read at: the ends of the cooldown windows, and
\* the second before each
WindowEnds == {StartTime + k * XP_COOLDOWN : k \in 0..MaxWindows}
SecondsBefore == {StartTime + k * XP_COOLDOWN - 1 : k \in 1..MaxWindows}

\* time passes to the end of a cooldown window
Tick ==
    /\ \E t \in WindowEnds : t > now /\ now' = t
    /\ UNCHANGED <<modVars, xpVars, admVars, banVars, tktVars, warn_task>>

\* time passes to the last second of a cooldown window
TickBefore ==
    /\ \E t \in SecondsBefore : t > now /\ now' = t
    /\ UNCHANGED <<modVars, xpVars, admVars, banVars, tktVars, warn_task>>

(***************************************************************************)
(* database/models.py                                                       *)
(***************************************************************************)
\* a User row with the column defaults
NewUser ==
    [warns |-> 0, is_muted |-> FALSE, mute_until |-> None,
     is_banned |-> FALSE, ban_until |-> None,
     experience |-> 0, level |-> 0, role |-> "member"]

\* a ModerationAction row
ModerationAction(action_type, moderator_user_id, reason, duration) ==
    [action_type |-> action_type, moderator_user_id |-> moderator_user_id,
     reason |-> reason, duration |-> duration]

(***************************************************************************)
(* utils/permissions.py                                                     *)
(***************************************************************************)
\* (art leaders let through)
can_moderate_WithArtLeader(user_role) == user_role \in {"moderator", "admin", "art_leader"}

can_moderate(user_role) == user_role \in {"moderator", "admin"}

check_moderator_permissions(user_role) == can_moderate(user_role)

(***************************************************************************)
(* handlers/moderation.py                                                   *)
(***************************************************************************)
\* (the test with the limit itself left out)
ShouldAutoBan_AboveLimit(new_warns) == new_warns > WARN_LIMIT

\* the test that decides the automatic ban after a warning
ShouldAutoBan(new_warns) == new_warns >= WARN_LIMIT

\* room for the rows one command adds
Room(n) == BagCardinality(moderation_actions) + n <= MaxActions

\* session.add(action)
add(table, row) == table (+) SetToBag({row})

\* warn_command: the caller's role, whether get_target_user found the target,
\* and the reason given
warn_command(user_role, found, reason) ==
    /\ Room(2)
    /\ UNCHANGED <<now, admVars, banVars, tktVars, warn_task, xpVars>>
    /\ IF ~check_moderator_permissions(user_role) \/ ~found \/ Target \notin DOMAIN User
       THEN UNCHANGED modVars
       ELSE LET user == User[Target]
                new_warns == user.warns + 1
                warned == [user EXCEPT !.warns = new_warns]
                warn_action == ModerationAction("warn", CallerId, reason, None)
                ban_action == ModerationAction("ban", CallerId, "autoban",
                                               BAN_DURATION_DEFAULT)
            IN  IF ShouldAutoBan(new_warns)
                THEN /\ User' = [User EXCEPT ![Target] =
                                   [warned EXCEPT !.is_banned = TRUE,
                                                  !.ban_until = now + BAN_DURATION_DEFAULT]]
                     /\ moderation_actions' =
                            add(add(moderation_actions, warn_action), ban_action)
                ELSE /\ User' = [User EXCEPT ![Target] = warned]
                     /\ moderation_actions' = add(moderation_actions, warn_action)

\* mute_command
mute_command(user_role, found, duration_seconds, reason) ==
    /\ Room(1)
    /\ UNCHANGED <<now, admVars, banVars, tktVars, warn_task, xpVars>>
    /\ IF ~check_moderator_permissions(user_role) \/ ~found
       THEN UNCHANGED modVars
       ELSE /\ User' = [u \in DOMAIN User |->
                          [User[u] EXCEPT !.is_muted = TRUE,
                                          !.mute_until = now + duration_seconds]]
            /\ moderation_actions' = add(moderation_actions,
                   ModerationAction("mute", CallerId, reason, duration_seconds))

\* ban_command
ban_command(user_role, found, duration_seconds, reason) ==
    /\ Room(1)
    /\ UNCHANGED <<now, admVars, banVars, tktVars, warn_task, xpVars>>
    /\ IF ~check_moderator_permissions(user_role) \/ ~found
       THEN UNCHANGED modVars
       ELSE /\ User' = [u \in DOMAIN User |->
                          [User[u] EXCEPT !.is_banned = TRUE,
                                          !.ban_until = now + duration_seconds]]
            /\ moderation_actions' = add(moderation_actions,
                   ModerationAction("ban", CallerId, reason, duration_seconds))

\* (an unwarn that also lifts the ban once the count is below the limit)
UnwarnValues_LiftBan(user, new_warns) ==
    IF new_warns < WARN_LIMIT
    THEN [user EXCEPT !.warns = new_warns, !.is_banned = FALSE, !.ban_until = None]
    ELSE [user EXCEPT !.warns = new_warns]

\* the columns unwarn_command writes
UnwarnValues(user, new_warns) == [user EXCEPT !.warns = new_warns]

\* (the test for a user with no warnings left out)
NoWarnings_Unchecked(user) == FALSE

\* user.warns == 0 of unwarn_command
NoWarnings(user) == user.warns = 0

\* unwarn_command
unwarn_command(user_role, found) ==
    /\ Room(1)
    /\ UNCHANGED <<now, admVars, banVars, tktVars, warn_task, xpVars>>
    /\ IF \/ ~check_moderator_permissions(user_role)
          \/ ~found
          \/ Target \notin DOMAIN User
          \/ NoWarnings(User[Target])
       THEN UNCHANGED modVars
       ELSE LET user == User[Target]
                new_warns == IF user.warns - 1 > 0 THEN user.warns - 1 ELSE 0
            IN  /\ User' = [User EXCEPT ![Target] = UnwarnValues(user, new_warns)]
                /\ moderation_actions' = add(moderation_actions,
                       ModerationAction("unwarn", CallerId, "none", None))

\* unmute_command
unmute_command(user_role, found) ==
    /\ Room(1)
    /\ UNCHANGED <<now, admVars, banVars, tktVars, warn_task, xpVars>>
    /\ IF ~check_moderator_permissions(user_role) \/ ~found
       THEN UNCHANGED modVars
       ELSE /\ User' = [u \in DOMAIN User |->
                          [User[u] EXCEPT !.is_muted = FALSE, !.mute_until = None]]
            /\ moderation_actions' = add(moderation_actions,
                   ModerationAction("unmute", CallerId, "none", None))

\* (an unban that also clears the warnings)
UnbanValues_ClearWarns(user) ==
    [user EXCEPT !.is_banned = FALSE, !.ban_until = None, !.warns = 0]

\* the columns unban_command writes
UnbanValues(user) == [user EXCEPT !.is_banned = FALSE, !.ban_until = None]

\* unban_command
unban_command(user_role, found) ==
    /\ Room(1)
    /\ UNCHANGED <<now, admVars, banVars, tktVars, warn_task, xpVars>>
    /\ IF ~check_moderator_permissions(user_role) \/ ~found
       THEN UNCHANGED modVars
       ELSE /\ User' = [u \in DOMAIN User |-> UnbanValues(User[u])]
            /\ moderation_actions' = add(moderation_actions,
                   ModerationAction("unban", CallerId, "none", None))

(***************************************************************************)
(* warn_command step by step: every await of a handler lets another handler *)
(* of the event loop run, and every commit can raise.                       *)
(***************************************************************************)
\* the locals of a warn_command that is not running
IdleWarn == [pc |-> "idle", new_warns |-> 0]

\* warn_command up to its first write: the permission check, get_target_user,
\* the select of the user and new_warns
WarnRead(w, user_role, found) ==
    /\ warn_task[w].pc = "idle"
    /\ \A o \in WarnTasks : o < w => warn_task[o].pc # "idle"   \* the first free handler
    /\ Room(2)
    /\ IF ~check_moderator_permissions(user_role) \/ ~found \/ Target \notin DOMAIN User
       THEN UNCHANGED warn_task
       ELSE warn_task' = [warn_task EXCEPT ![w] =
                            [pc |-> "commit", new_warns |-> User[Target].warns + 1]]
    /\ UNCHANGED <<now, modVars, xpVars, admVars, banVars, tktVars>>

\* warn_command: the update of warns, the 'warn' action and the first commit
WarnCommit(w) ==
    /\ warn_task[w].pc = "commit"
    /\ Room(1)
    /\ User' = [User EXCEPT ![Target].warns = warn_task[w].new_warns]
    /\ moderation_actions' = add(moderation_actions,
                                 ModerationAction("warn", CallerId, "given", None))
    /\ warn_task' = [warn_task EXCEPT ![w] =
                        IF ShouldAutoBan(warn_task[w].new_warns)
                        THEN [@ EXCEPT !.pc = "autoban"] ELSE IdleWarn]
    /\ UNCHANGED <<now, xpVars, admVars, banVars, tktVars>>

\* warn_command: the first commit raises; except: session.rollback()
WarnCommitFails(w) ==
    /\ warn_task[w].pc = "commit"
    /\ warn_task' = [warn_task EXCEPT ![w] = IdleWarn]
    /\ UNCHANGED <<now, modVars, xpVars, admVars, banVars, tktVars>>

\* warn_command: the update of is_banned and ban_until, the 'ban' action and
\* the second commit
WarnAutoBan(w) ==
    /\ warn_task[w].pc = "autoban"
    /\ Room(1)
    /\ User' = [User EXCEPT ![Target].is_banned = TRUE,
                            ![Target].ban_until = now + BAN_DURATION_DEFAULT]
    /\ moderation_actions' = add(moderation_actions,
           ModerationAction("ban", CallerId, "autoban", BAN_DURATION_DEFAULT))
    /\ warn_task' = [warn_task EXCEPT ![w] = IdleWarn]
    /\ UNCHANGED <<now, xpVars, admVars, banVars, tktVars>>

\* warn_command: the ban update or the second commit raises; except:
\* session.rollback() undoes what follows the first commit
WarnAutoBanFails(w) ==
    /\ warn_task[w].pc = "autoban"
    /\ warn_task' = [warn_task EXCEPT ![w] = IdleWarn]
    /\ UNCHANGED <<now, modVars, xpVars, admVars, banVars, tktVars>>

(***************************************************************************)
(* handlers/badwords.py                                                     *)
(***************************************************************************)
\* the punishment of the most severe word found in the message
Severity(s) == CASE s = "warn" -> 1 [] s = "mute" -> 2 [] s = "ban" -> 3

\* (the least severe of the words found)
most_severe_Least(found_words) ==
    CHOOSE w \in found_words : \A v \in found_words : Severity(w) <= Severity(v)

most_severe(found_words) ==
    CHOOSE w \in found_words : \A v \in found_words : Severity(v) <= Severity(w)

\* check_message_for_badwords: the severities of the banned words the text
\* contains, and whether the message has text and a human sender
check_message_for_badwords(found_words, is_text) ==
    /\ Room(1)
    /\ UNCHANGED <<now, admVars, banVars, tktVars, warn_task, xpVars>>
    /\ IF ~is_text \/ found_words = {}
       THEN UNCHANGED modVars
       ELSE LET sev == most_severe(found_words) IN
            CASE sev = "warn" ->
                    IF Target \in DOMAIN User
                    THEN /\ User' = [User EXCEPT ![Target].warns = @ + 1]
                         /\ moderation_actions' = add(moderation_actions,
                                ModerationAction("warn", SYSTEM_ID, "badword", None))
                    ELSE UNCHANGED modVars
              [] sev = "mute" ->
                    /\ User' = [u \in DOMAIN User |->
                                  [User[u] EXCEPT !.is_muted = TRUE,
                                                  !.mute_until = now + MUTE_DURATION_DEFAULT]]
                    /\ moderation_actions' = add(moderation_actions,
                           ModerationAction("mute", SYSTEM_ID, "badword",
                                            MUTE_DURATION_DEFAULT))
              [] sev = "ban" ->
                    /\ User' = [u \in DOMAIN User |->
                                  [User[u] EXCEPT !.is_banned = TRUE,
                                                  !.ban_until = now + BAN_DURATION_DEFAULT]]
                    /\ moderation_actions' = add(moderation_actions,
                           ModerationAction("ban", SYSTEM_ID, "badword",
                                            BAN_DURATION_DEFAULT))

(***************************************************************************)
(* handlers/admin.py                                                        *)
(***************************************************************************)
is_admin(user_role) == user_role = "admin"

check_admin_permissions(user_role) == is_admin(user_role)

\* xp_modify_command: the caller's role, whether get_target_user_admin found
\* the target, the parsed xp_change, and the level that
\* calculate_level_from_experience (not in utils/experience.py) returns
xp_modify_command(user_role, found, xp_change, new_level) ==
    /\ UNCHANGED <<now, moderation_actions, xpVars, admVars, warn_task, banVars, tktVars>>
    /\ IF ~check_admin_permissions(user_role) \/ ~found \/ Target \notin DOMAIN User
       THEN UNCHANGED User
       ELSE LET user == User[Target]
                changed == user.experience + xp_change
                new_experience == IF changed > 0 THEN changed ELSE 0
            IN  /\ new_experience <= MaxChange
                /\ User' = [User EXCEPT ![Target] =
                              [user EXCEPT !.experience = new_experience,
                                           !.level = new_level]]

\* level_modify_command: the parsed level, and the experience that
\* calculate_experience_for_level (not in utils/experience.py) returns
level_modify_command(user_role, found, new_level, new_experience) ==
    /\ UNCHANGED <<now, moderation_actions, xpVars, admVars, warn_task, banVars, tktVars>>
    /\ IF \/ ~check_admin_permissions(user_role)
          \/ ~found
          \/ new_level < 0
          \/ Target \notin DOMAIN User
       THEN UNCHANGED User
       ELSE User' = [User EXCEPT ![Target] =
                       [@ EXCEPT !.level = new_level, !.experience = new_experience]]

\* the roles give_rights_command accepts
valid_roles == {"moderator", "admin", "art_leader"}

\* give_rights_command
give_rights_command(user_role, found, new_role) ==
    /\ UNCHANGED <<now, moderation_actions, xpVars, admVars, warn_task, banVars, tktVars>>
    /\ IF ~check_admin_permissions(user_role) \/ ~found \/ new_role \notin valid_roles
       THEN UNCHANGED User
       ELSE User' = [u \in DOMAIN User |-> [User[u] EXCEPT !.role = new_role]]

\* remove_rights_command
remove_rights_command(user_role, found) ==
    /\ UNCHANGED <<now, moderation_actions, xpVars, admVars, warn_task, banVars, tktVars>>
    /\ IF ~check_admin_permissions(user_role) \/ ~found \/ Target \notin DOMAIN User
       THEN UNCHANGED User
       ELSE User' = [User EXCEPT ![Target].role = "member"]

\* an ExperienceMultiplier row, the multiplier in hundredths
ExperienceMultiplier(multiplier, expires_at) ==
    [multiplier |-> multiplier, expires_at |-> expires_at]

\* multiplier_command: the caller's role, whether get_target_user_admin found
\* the target, float(args[...]) (None when it raises) and the duration parsed
\* from the optional last argument (None when absent or not a duration)
multiplier_command(user_role, found, multiplier, duration_seconds) ==
    /\ UNCHANGED <<now, modVars, xpVars, warn_task, banVars, tktVars>>
    /\ IF \/ ~check_admin_permissions(user_role)
          \/ ~found
          \/ multiplier = None
          \/ multiplier <= 0
       THEN UNCHANGED experience_multipliers
       ELSE LET expires_at == IF duration_seconds # None
                              THEN now + duration_seconds ELSE None
                deleted == [u \in DOMAIN experience_multipliers \ {Target} |->
                               experience_multipliers[u]]
            IN  IF multiplier # 100   \* multiplier != 1.0
                THEN experience_multipliers' =
                         [u \in DOMAIN deleted \cup {Target} |->
                             IF u = Target
                             THEN ExperienceMultiplier(multiplier, expires_at)
                             ELSE deleted[u]]
                ELSE experience_multipliers' = deleted

(***************************************************************************)
(* config.py                                                                *)
(***************************************************************************)
calculate_required_exp(level) == 3 * (level * level) + 50 * level + 100

RECURSIVE LevelLoop(_, _)
LevelLoop(level, exp) ==
    IF calculate_required_exp(level) <= exp THEN LevelLoop(level + 1, exp) ELSE level - 1

\* (the loop started at level 0)
calculate_level_from_exp_FromZero(exp) == LevelLoop(0, exp)

\* (the loop's last level returned without the step back)
calculate_level_from_exp_NoStepBack(exp) == LevelLoop(1, exp) + 1

calculate_level_from_exp(exp) == LevelLoop(1, exp)

(***************************************************************************)
(* database/database.py                                                     *)
(***************************************************************************)
\* the row INSERT OR REPLACE leaves: the columns named in the statement, and
\* the column defaults of init_db for all the others
InsertedRow(username) ==
    [username |-> username,
     experience |-> DEFAULT_EXPERIENCE,
     level |-> DEFAULT_LEVEL,
     last_xp_time |-> DEFAULT_LAST_XP_TIME,
     xp_multiplier |-> DEFAULT_XP_MULTIPLIER,
     can_use_stickers |-> FALSE,
     join_date |-> now,
     last_seen |-> now]

\* Database.create_or_update_user
create_or_update_user(table, user_id, username) ==
    [u \in DOMAIN table \cup {user_id} |->
        IF u = user_id THEN InsertedRow(username) ELSE table[u]]

\* (the level left out of the UPDATE)
update_user_experience_StaleLevel(table, user_id, experience, level) ==
    [u \in DOMAIN table |->
        IF u = user_id
        THEN [table[u] EXCEPT !.experience = experience, !.last_xp_time = now]
        ELSE table[u]]

\* Database.update_user_experience
update_user_experience(table, user_id, experience, level) ==
    [u \in DOMAIN table |->
        IF u = user_id
        THEN [table[u] EXCEPT !.experience = experience, !.level = level,
                              !.last_xp_time = now]
        ELSE table[u]]

(***************************************************************************)
(* middleware/auth.py                                                       *)
(***************************************************************************)
Usernames == {"name"}

\* AuthMiddleware.__call__ for an event of the user
AuthMiddleware(username) ==
    /\ delivered < MaxEvents
    /\ delivered' = delivered + 1
    /\ users' = create_or_update_user(users, Target, username)
    /\ UNCHANGED <<now, admVars, banVars, tktVars, warn_task, modVars, message_stats, task, admin>>

(***************************************************************************)
(* utils/experience.py                                                      *)
(***************************************************************************)
\* the locals of an invocation that is not running
IdleTask ==
    [pc |-> "idle", event |-> "none", current_exp |-> 0, new_exp |-> 0,
     new_level |-> 0, current_level |-> 0, applied |-> FALSE, raced |-> FALSE]

\* (the cooldown test with the window's last instant still gated)
CooldownOver_Strict(current_time, last_xp_time) == current_time - last_xp_time > XP_COOLDOWN

\* the cooldown test of ExperienceHandler.__call__
CooldownOver(current_time, last_xp_time) == current_time - last_xp_time >= XP_COOLDOWN

\* the pairs of a base_xp in 5..20 and a multiplier in 0.01..10.00 (in
\* hundredths) whose product in double arithmetic lies just below the whole
\* number the decimal product is: 15 * 8.2 is 122.99999999999999
FloatShortfall == {<<15, 820>>}

\* xp_to_award = int(base_xp * multiplier), the multiplier in hundredths:
\* int() truncates the double product
XpToAward(base_xp, multiplier) ==
    IF <<base_xp, multiplier>> \in FloatShortfall
    THEN (base_xp * multiplier) \div 100 - 1
    ELSE (base_xp * multiplier) \div 100

\* (the level left as it was read)
AwardLevel_Stale(new_exp, current_level) == current_level

\* new_level of award_experience
AwardLevel(new_exp, current_level) == calculate_level_from_exp(new_exp)

\* (commands let through the event filter)
IsPlainText_WithCommands(kind) == kind \in {"text", "command"}

\* the event filter of ExperienceHandler.__call__: a Message with text that
\* does not start with '/', sent by a user that is not a bot
IsPlainText(kind) == kind = "text"

\* (the invocation returning without calling the handler)
PassOn_Dropped(kind) == IdleTask

\* return await handler(event, data) of an event that is skipped or gated:
\* the invocation goes to the handler with nothing computed
PassOn(kind) == [IdleTask EXCEPT !.pc = "handler", !.event = kind]

\* ExperienceHandler.__call__ up to its first write: the event filter,
\* get_user, the cooldown test and the locals of award_experience
ReceiveMessage(t, kind, base_xp) ==
    /\ task[t].pc = "idle"
    /\ \A o \in Tasks : o < t => task[o].pc # "idle"   \* the first free invocation
    /\ delivered < MaxEvents
    /\ delivered' = delivered + 1
    /\ IF ~IsPlainText(kind) \/ Target \notin DOMAIN users
       THEN task' = [task EXCEPT ![t] = PassOn(kind)]
       ELSE LET user_data == users[Target]
                current_time == now
                new_exp == user_data.experience
                             + XpToAward(base_xp, user_data.xp_multiplier)
            IN  IF CooldownOver(current_time, user_data.last_xp_time)
                THEN task' = [task EXCEPT ![t] =
                        [pc |-> "update", event |-> kind,
                         current_exp |-> user_data.experience,
                         new_exp |-> new_exp,
                         new_level |-> AwardLevel(new_exp, user_data.level),
                         current_level |-> user_data.level,
                         applied |-> FALSE,
                         raced |-> \E o \in Tasks \ {t} : task[o].pc = "update"]]
                ELSE task' = [task EXCEPT ![t] = PassOn(kind)]
    /\ UNCHANGED <<now, admVars, banVars, tktVars, warn_task, modVars, users, message_stats, admin>>

\* (a level-up reported whenever the level is not below the one read)
LevelUp_NotBelow(new_level, current_level) == new_level >= current_level

\* the level-up test of award_experience
LevelUp(new_level, current_level) == new_level > current_level

\* award_experience: Database.update_user_experience and the level-up test
AwardWrite(t) ==
    /\ task[t].pc = "update"
    /\ users' = update_user_experience(users, Target, task[t].new_exp, task[t].new_level)
    /\ task' = [task EXCEPT ![t].applied = TRUE,
                            ![t].pc = IF LevelUp(task[t].new_level, task[t].current_level)
                                      THEN "level_up" ELSE "stats"]
    /\ UNCHANGED <<now, admVars, banVars, tktVars, warn_task, modVars, message_stats, admin, delivered>>

\* award_experience: Database.update_user_experience raises before its
\* commit; nothing is written and the exception leaves award_experience
AwardFail(t) ==
    /\ task[t].pc = "update"
    /\ task' = [task EXCEPT ![t].pc = "raised"]
    /\ UNCHANGED <<now, admVars, banVars, tktVars, warn_task, modVars, users, message_stats, admin, delivered>>

\* the exception leaves ExperienceHandler.__call__: no statistics, no handler
Propagate(t) ==
    /\ task[t].pc = "raised"
    /\ task' = [task EXCEPT ![t] = IdleTask]
    /\ UNCHANGED <<now, admVars, banVars, tktVars, warn_task, modVars, users, message_stats, admin, delivered>>

\* handle_level_up
handle_level_up(t) ==
    /\ task[t].pc = "level_up"
    /\ IF /\ task[t].new_level >= STICKER_UNLOCK_LEVEL
          /\ task[t].current_level < STICKER_UNLOCK_LEVEL
       THEN users' = [u \in DOMAIN users |->
                        IF u = Target THEN [users[u] EXCEPT !.can_use_stickers = TRUE]
                        ELSE users[u]]
       ELSE UNCHANGED users
    /\ task' = [task EXCEPT ![t].pc = "stats"]
    /\ UNCHANGED <<now, admVars, banVars, tktVars, warn_task, modVars, message_stats, admin, delivered>>

\* Database.update_message_stats, called by ExperienceHandler.__call__
update_message_stats(t) ==
    /\ task[t].pc = "stats"
    /\ message_stats' = message_stats + 1
    /\ task' = [task EXCEPT ![t].pc = "handler"]
    /\ UNCHANGED <<now, admVars, banVars, tktVars, warn_task, modVars, users, admin, delivered>>

\* return await handler(event, data)
CallHandler(t) ==
    /\ task[t].pc = "handler"
    /\ task' = [task EXCEPT ![t] = IdleTask]
    /\ UNCHANGED <<now, admVars, banVars, tktVars, warn_task, modVars, users, message_stats, admin, delivered>>

\* get_user_profile: the progress figures of the profile it returns
get_user_profile(user_id) ==
    LET user_data == users[user_id]
        level == user_data.level
        experience == user_data.experience
        current_level_exp == IF level > 1 THEN calculate_required_exp(level - 1) ELSE 0
        next_level_exp == calculate_required_exp(level)
    IN  [level |-> level,
         experience |-> experience,
         exp_in_level |-> experience - current_level_exp,
         exp_needed |-> next_level_exp - experience,
         next_level_exp |-> next_level_exp - current_level_exp]

\* the locals of modify_user_experience when it is not running; overrode
\* records that an administrator has set experience or level
IdleAdmin ==
    [pc |-> "idle", current_exp |-> 0, new_exp |-> 0, new_level |-> 0, overrode |-> FALSE]

\* (the sum written as it is)
ClampedExperience_Unclamped(current_exp, experience_change) ==
    current_exp + experience_change

\* new_exp = max(0, current_exp + experience_change)
ClampedExperience(current_exp, experience_change) ==
    IF current_exp + experience_change > 0 THEN current_exp + experience_change ELSE 0

\* modify_user_experience up to its write: get_user and the new values
ModifyRead(experience_change) ==
    /\ admin.pc = "idle"
    /\ delivered < MaxEvents
    /\ delivered' = delivered + 1
    /\ IF Target \notin DOMAIN users
       THEN UNCHANGED admin
       ELSE LET current_exp == users[Target].experience
                new_exp == ClampedExperience(current_exp, experience_change)
            IN  admin' = [admin EXCEPT !.pc = "update", !.current_exp = current_exp,
                                       !.new_exp = new_exp,
                                       !.new_level = calculate_level_from_exp(new_exp)]
    /\ UNCHANGED <<now, admVars, banVars, tktVars, warn_task, modVars, users, message_stats, task>>

\* modify_user_experience: Database.update_user_experience
ModifyWrite ==
    /\ admin.pc = "update"
    /\ users' = update_user_experience(users, Target, admin.new_exp, admin.new_level)
    /\ admin' = [IdleAdmin EXCEPT !.overrode = TRUE]
    /\ UNCHANGED <<now, admVars, banVars, tktVars, warn_task, modVars, message_stats, task, delivered>>

\* the experience set_user_level writes for a level
LevelExperience(target_level) ==
    IF target_level > 1 THEN calculate_required_exp(target_level - 1) ELSE 0

\* (level 0 let through)
InvalidLevelTarget_BelowZero(target_level) == target_level < 0

\* the test of set_user_level that rejects a level
InvalidLevelTarget(target_level) == target_level < 1

\* set_user_level
set_user_level(target_level) ==
    /\ delivered < MaxEvents
    /\ delivered' = delivered + 1
    /\ IF InvalidLevelTarget(target_level)
       THEN UNCHANGED <<users, admin>>
       ELSE /\ users' = update_user_experience(users, Target,
                            LevelExperience(target_level), target_level)
            /\ admin' = [admin EXCEPT !.overrode = TRUE]
    /\ UNCHANGED <<now, admVars, banVars, tktVars, warn_task, modVars, message_stats, task>>

\* (the range taken without its ends)
MultiplierInRange_Open(multiplier) ==
    MIN_XP_MULTIPLIER < multiplier /\ multiplier < MAX_XP_MULTIPLIER

\* the range test of set_xp_multiplier
MultiplierInRange(multiplier) ==
    MIN_XP_MULTIPLIER <= multiplier /\ multiplier <= MAX_XP_MULTIPLIER

\* set_xp_multiplier, the multiplier in hundredths
set_xp_multiplier(multiplier) ==
    /\ delivered < MaxEvents
    /\ delivered' = delivered + 1
    /\ IF ~MultiplierInRange(multiplier)
       THEN UNCHANGED users
       ELSE users' = [u \in DOMAIN users |->
                        IF u = Target THEN [users[u] EXCEPT !.xp_multiplier = multiplier]
                        ELSE users[u]]
    /\ UNCHANGED <<now, admVars, banVars, tktVars, warn_task, modVars, message_stats, task, admin>>

(***************************************************************************)
(* database/database.py: the bans table                                     *)
(***************************************************************************)
\* the users a ban is recorded for
BannedIds == UserIds \cup Callers

\* a row of bans (moderator_id and reason left out)
Ban(user_id, unban_date, is_active) ==
    [user_id |-> user_id, unban_date |-> unban_date, is_active |-> is_active]

\* Database.add_ban: unban_date is None for a permanent ban
add_ban(user_id, unban_date) ==
    /\ BagCardinality(bans) < MaxBans
    /\ bans' = bans (+) SetToBag({Ban(user_id, unban_date, TRUE)})
    /\ UNCHANGED <<now, modVars, xpVars, admVars, warn_task, tktVars>>

\* UPDATE bans SET is_active = FALSE WHERE user_id = ? AND is_active = TRUE
Deactivated(table, user_id) ==
    LET off(r) == IF r.user_id = user_id THEN [r EXCEPT !.is_active = FALSE] ELSE r
        rows == {off(r) : r \in BagToSet(table)}
    IN  [x \in rows |->
            CopiesIn(x, table)
            + (IF x.user_id = user_id
               THEN CopiesIn([x EXCEPT !.is_active = TRUE], table) ELSE 0)]

\* Database.remove_ban
remove_ban(user_id) ==
    /\ bans' = Deactivated(bans, user_id)
    /\ UNCHANGED <<now, modVars, xpVars, admVars, warn_task, tktVars>>

\* (the count of active rows, whatever their unban_date)
is_user_banned_NoExpiry(user_id) ==
    \E r \in BagToSet(bans) : r.user_id = user_id /\ r.is_active

\* Database.is_user_banned: SELECT COUNT(*) ... WHERE user_id = ? AND
\* is_active = TRUE AND (unban_date IS NULL OR unban_date > now) is above 0
is_user_banned(user_id) ==
    \E r \in BagToSet(bans) :
        /\ r.user_id = user_id
        /\ r.is_active
        /\ (r.unban_date = None \/ r.unban_date > now)

(***************************************************************************)
(* handlers/tickets.py: every await of a handler lets another handler of    *)
(* the event loop run, and every commit and every call of Telegram can      *)
(* raise.                                                                   *)
(***************************************************************************)
\* the moderators pressing buttons and replying (callback.from_user.id)
Moderators == {2, 3}
\* the ticket the autoincrement id creates first
TicketIds == {1}
TheTicket == CHOOSE i \in TicketIds : TRUE
\* action_data[1] of the callback data ticket_<action>_<id>
TicketActions == {"take", "close", "reply"}

can_access_tickets(user_role) == user_role \in {"moderator", "admin"}

\* a Ticket row (user_id, username, message and the dates left out)
Ticket(status, assigned_to) == [status |-> status, assigned_to |-> assigned_to]

\* the locals of a ticket handler that is not running: status is
\* ticket.status as the handler's select read it, told the last answer the
\* moderator was given
IdleTicketTask == [pc |-> "idle", status |-> "none", told |-> "none"]

Answered(m, answer) ==
    ticket_task' = [ticket_task EXCEPT ![m] = [IdleTicketTask EXCEPT !.told = answer]]

\* ticket_command: whether the chat is private and the text is not empty
ticket_command(valid) ==
    /\ TheTicket \notin DOMAIN tickets
    /\ IF valid
       THEN tickets' = [i \in {TheTicket} |-> Ticket("open", None)]
       ELSE UNCHANGED tickets
    /\ UNCHANGED <<now, modVars, xpVars, admVars, warn_task, banVars,
                   ticket_responses, sent, ticket_task>>

\* ticket_callback_handler up to its first write: the permission check, the
\* select of the ticket and the test of its status
CallbackRead(m, user_role, action) ==
    /\ ticket_task[m].pc = "idle"
    /\ IF ~can_access_tickets(user_role)
       THEN Answered(m, "denied")
       ELSE IF TheTicket \notin DOMAIN tickets
       THEN Answered(m, "not_found")
       ELSE LET ticket == tickets[TheTicket] IN
            CASE action = "take" ->
                    IF ticket.status # "open"
                    THEN Answered(m, "already_taken")
                    ELSE ticket_task' = [ticket_task EXCEPT ![m] =
                            [pc |-> "take", status |-> ticket.status, told |-> "none"]]
              [] action = "close" ->
                    ticket_task' = [ticket_task EXCEPT ![m] =
                            [pc |-> "close", status |-> ticket.status, told |-> "none"]]
              [] action = "reply" -> Answered(m, "usage")
    /\ UNCHANGED <<now, modVars, xpVars, admVars, warn_task, banVars,
                   tickets, ticket_responses, sent>>

\* 'take': the update of status and assigned_to and the commit, then
\* edit_text, which raises or not, and the answer
CallbackTake(m, edited) ==
    /\ ticket_task[m].pc = "take"
    /\ tickets' = [tickets EXCEPT ![TheTicket] = Ticket("in_progress", m)]
    /\ Answered(m, IF edited THEN "taken" ELSE "error")
    /\ UNCHANGED <<now, modVars, xpVars, admVars, warn_task, banVars,
                   ticket_responses, sent>>

\* 'close': the update of status and the commit, then edit_text, which
\* raises or not, and the answer
CallbackClose(m, edited) ==
    /\ ticket_task[m].pc = "close"
    /\ tickets' = [tickets EXCEPT ![TheTicket].status = "closed"]
    /\ Answered(m, IF edited THEN "closed" ELSE "error")
    /\ UNCHANGED <<now, modVars, xpVars, admVars, warn_task, banVars,
                   ticket_responses, sent>>

\* the update or the commit of a handler raises; except: session.rollback()
TicketCommitFails(m) ==
    /\ ticket_task[m].pc \in {"take", "close", "reply"}
    /\ Answered(m, "error")
    /\ UNCHANGED <<now, modVars, xpVars, admVars, warn_task, banVars,
                   tickets, ticket_responses, sent>>

\* (no ticket counts as closed)
TicketClosed_Never(status) == FALSE

\* ticket.status == "closed" of reply_command
TicketClosed(status) == status = "closed"

\* reply_command up to its first write: the permission check, the parse of
\* the arguments (well_formed), the select of the ticket and the test of
\* its status
ReplyRead(m, user_role, well_formed) ==
    /\ ticket_task[m].pc = "idle"
    /\ ticket_responses + Cardinality({o \in Moderators : ticket_task[o].pc = "reply"})
           < MaxReplies
    /\ IF ~can_access_tickets(user_role)
       THEN Answered(m, "denied")
       ELSE IF ~well_formed
       THEN Answered(m, "usage")
       ELSE IF TheTicket \notin DOMAIN tickets
       THEN Answered(m, "not_found")
       ELSE IF TicketClosed(tickets[TheTicket].status)
       THEN Answered(m, "already_closed")
       ELSE ticket_task' = [ticket_task EXCEPT ![m] =
                [pc |-> "reply", status |-> tickets[TheTicket].status, told |-> "none"]]
    /\ UNCHANGED <<now, modVars, xpVars, admVars, warn_task, banVars,
                   tickets, ticket_responses, sent>>

\* reply_command: the TicketResponse and its commit, then send_message to
\* the ticket's author, which raises or not
ReplyStore(m, delivered_ok) ==
    /\ ticket_task[m].pc = "reply"
    /\ ticket_responses' = ticket_responses + 1
    /\ sent' = IF delivered_ok THEN sent + 1 ELSE sent
    /\ Answered(m, IF delivered_ok THEN "replied" ELSE "send_error")
    /\ UNCHANGED <<now, modVars, xpVars, admVars, warn_task, banVars, tickets>>

(***************************************************************************)
(* The experience specification.                                            *)
(***************************************************************************)
InitXP ==
    /\ users = [u \in {} |-> InsertedRow("name")]
    /\ message_stats = 0
    /\ task = [t \in Tasks |-> IdleTask]
    /\ admin = IdleAdmin
    /\ delivered = 0
    /\ experience_multipliers = [u \in {} |-> ExperienceMultiplier(DEFAULT_XP_MULTIPLIER, None)]
    /\ warn_task = [w \in WarnTasks |-> IdleWarn]
    /\ bans = EmptyBag
    /\ tickets = <<>>
    /\ ticket_responses = 0
    /\ sent = 0
    /\ ticket_task = [m \in Moderators |-> IdleTicketTask]

\* the base_xp random.randint draws, the changes and levels an administrator
\* asks for, and the multipliers (in hundredths: 0.05 and 2.0)
BaseXps == {XP_PER_MESSAGE_MIN, XP_PER_MESSAGE_MAX}
ExperienceChanges == {150, 0 - 40}
TargetLevels == {0, 1, 2}
Multipliers == {5, 200}

(***************************************************************************)
(* The moderation specification.                                            *)
(***************************************************************************)
InitMod ==
    /\ now = StartTime
    /\ User \in {[u \in {} |-> NewUser], [u \in UserIds |-> NewUser]}
    /\ moderation_actions = EmptyBag
    /\ InitXP

\* the durations a moderator gives: none (the default), and "1m" for a ban
MuteDurations == {MUTE_DURATION_DEFAULT}
BanDurations == {BAN_DURATION_DEFAULT, 60}

NextMod ==
    \/ Tick
    \/ \E r \in UserRoles, f \in BOOLEAN : warn_command(r, f, "given")
    \/ \E r \in UserRoles, f \in BOOLEAN, d \in MuteDurations :
           mute_command(r, f, d, "given")
    \/ \E r \in UserRoles, f \in BOOLEAN, d \in BanDurations :
           ban_command(r, f, d, "given")
    \/ \E r \in UserRoles, f \in BOOLEAN : unwarn_command(r, f)
    \/ \E r \in UserRoles, f \in BOOLEAN : unmute_command(r, f)
    \/ \E r \in UserRoles, f \in BOOLEAN : unban_command(r, f)
    \/ \E ws \in SUBSET Severities, txt \in BOOLEAN : check_message_for_badwords(ws, txt)

SpecMod == InitMod /\ [][NextMod]_vars

InitExp ==
    /\ now = StartTime
    /\ User = [u \in {} |-> NewUser]
    /\ moderation_actions = EmptyBag
    /\ InitXP

NextXP ==
    \/ Tick
    \/ TickBefore
    \/ \E n \in Usernames : AuthMiddleware(n)
    \/ \E t \in Tasks, k \in EventKinds, b \in BaseXps : ReceiveMessage(t, k, b)
    \/ \E t \in Tasks : AwardWrite(t)
    \/ \E t \in Tasks : AwardFail(t)
    \/ \E t \in Tasks : Propagate(t)
    \/ \E t \in Tasks : handle_level_up(t)
    \/ \E t \in Tasks : update_message_stats(t)
    \/ \E t \in Tasks : CallHandler(t)
    \/ \E c \in ExperienceChanges : ModifyRead(c)
    \/ ModifyWrite
    \/ \E l \in TargetLevels : set_user_level(l)
    \/ \E m \in Multipliers : set_xp_multiplier(m)

SpecXP == InitExp /\ [][NextXP]_vars

(***************************************************************************)
(* The level specification: modify_user_experience over a range of changes  *)
(* stores every experience total with the level computed from it.           *)
(***************************************************************************)
LevelChanges == 0..MaxChange

NextLevel ==
    \/ \E n \in Usernames : AuthMiddleware(n)
    \/ \E c \in LevelChanges : ModifyRead(c)
    \/ ModifyWrite

SpecLevel == InitExp /\ [][NextLevel]_vars

(***************************************************************************)
(* The multiplier specification: set_xp_multiplier and the /multiplier      *)
(* command.                                                                 *)
(***************************************************************************)
\* the multipliers asked of set_xp_multiplier, in hundredths: 0.05, 0.09,
\* 0.1, 2.0, 10.0 and 10.01
SetMultipliers == {5, 9, 10, 200, 1000, 1001}
\* what float(args[...]) gives /multiplier: an error, 0, 0.05, 0.1, 1.0, 2.0,
\* 10.0 and 50
CommandMultipliers == {None, 0, 5, 10, 100, 200, 1000, 5000}
\* the optional duration of /multiplier: absent, and "1m"
MultiplierDurations == {None, 60}

NextAdmin ==
    \/ Tick
    \/ \E n \in Usernames : AuthMiddleware(n)
    \/ \E m \in SetMultipliers : set_xp_multiplier(m)
    \/ \E r \in UserRoles, f \in BOOLEAN, m \in CommandMultipliers,
          d \in MultiplierDurations : multiplier_command(r, f, m, d)

SpecAdmin == InitExp /\ [][NextAdmin]_vars

(***************************************************************************)
(* The warn specification: concurrently handled /warn commands whose        *)
(* commits can raise.                                                       *)
(***************************************************************************)
NextWarn ==
    \/ Tick
    \/ \E w \in WarnTasks, r \in UserRoles, f \in BOOLEAN : WarnRead(w, r, f)
    \/ \E w \in WarnTasks : WarnCommit(w)
    \/ \E w \in WarnTasks : WarnCommitFails(w)
    \/ \E w \in WarnTasks : WarnAutoBan(w)
    \/ \E w \in WarnTasks : WarnAutoBanFails(w)

SpecWarn == InitMod /\ [][NextWarn]_vars

(***************************************************************************)
(* The award specification: messages handled one after another, for users  *)
(* whose multiplier and level an administrator has set.                     *)
(***************************************************************************)
\* the one invocation of ExperienceHandler.__call__ running at a time
AwardTasks == {CHOOSE t \in Tasks : \A o \in Tasks : t <= o}
\* every base_xp random.randint can draw
AwardBases == XP_PER_MESSAGE_MIN..XP_PER_MESSAGE_MAX
\* the multipliers set before the messages, in hundredths: 0.1, 2.0, 8.2, 10.0
AwardMultipliers == {10, 200, 820, 1000}
\* the levels asked of set_user_level
AwardLevels == {0, 1, STICKER_UNLOCK_LEVEL}

NextAward ==
    \/ Tick
    \/ \E n \in Usernames : AuthMiddleware(n)
    \/ \E m \in AwardMultipliers : set_xp_multiplier(m)
    \/ \E l \in AwardLevels : set_user_level(l)
    \/ \E t \in AwardTasks, k \in EventKinds, b \in AwardBases : ReceiveMessage(t, k, b)
    \/ \E t \in AwardTasks : AwardWrite(t)
    \/ \E t \in AwardTasks : handle_level_up(t)
    \/ \E t \in AwardTasks : update_message_stats(t)
    \/ \E t \in AwardTasks : CallHandler(t)

SpecAward == InitExp /\ [][NextAward]_vars

(***************************************************************************)
(* One invocation of ExperienceHandler at a time, no persistence error, and *)
(* every await completing: the event loop runs a coroutine until it returns.*)
(***************************************************************************)
PassMultipliers == {MAX_XP_MULTIPLIER}

NextPass ==
    \/ Tick
    \/ \E n \in Usernames : AuthMiddleware(n)
    \/ \E m \in PassMultipliers : set_xp_multiplier(m)
    \/ \E t \in AwardTasks, k \in EventKinds, b \in BaseXps : ReceiveMessage(t, k, b)
    \/ \E t \in AwardTasks : AwardWrite(t)
    \/ \E t \in AwardTasks : handle_level_up(t)
    \/ \E t \in AwardTasks : update_message_stats(t)
    \/ \E t \in AwardTasks : CallHandler(t)

SpecPass ==
    /\ InitExp
    /\ [][NextPass]_vars
    /\ \A t \in AwardTasks :
          /\ WF_vars(AwardWrite(t))
          /\ WF_vars(handle_level_up(t))
          /\ WF_vars(update_message_stats(t))
          /\ WF_vars(CallHandler(t))

(***************************************************************************)
(* The bans table: bans added for a span of the clock or for good, removed, *)
(* and read as time passes.                                                 *)
(***************************************************************************)
\* how long a timed ban lasts: one step of the clock, or the default
BanSpans == {XP_COOLDOWN, BAN_DURATION_DEFAULT}
\* the unban_date a caller passes
UnbanDates == {None} \cup {now + d : d \in BanSpans}

NextBan ==
    \/ Tick
    \/ \E u \in BannedIds, d \in UnbanDates : add_ban(u, d)
    \/ \E u \in BannedIds : remove_ban(u)

SpecBan == InitExp /\ [][NextBan]_vars

(***************************************************************************)
(* The ticket specification: one ticket, two moderators whose handlers run  *)
(* concurrently.                                                            *)
(***************************************************************************)
NextTicket ==
    \/ \E v \in BOOLEAN : ticket_command(v)
    \/ \E m \in Moderators, r \in UserRoles, a \in TicketActions : CallbackRead(m, r, a)
    \/ \E m \in Moderators, e \in BOOLEAN : CallbackTake(m, e)
    \/ \E m \in Moderators, e \in BOOLEAN : CallbackClose(m, e)
    \/ \E m \in Moderators : TicketCommitFails(m)
    \/ \E m \in Moderators, r \in UserRoles, w \in BOOLEAN : ReplyRead(m, r, w)
    \/ \E m \in Moderators, d \in BOOLEAN : ReplyStore(m, d)

SpecTicket == InitExp /\ [][NextTicket]_vars

(***************************************************************************)
(* The permission specification: every command that checks the caller's     *)
(* role, called with every role.                                            *)
(***************************************************************************)
\* config.UserRoles
AllRoles == UserRoles \cup {"art_leader"}
\* the arguments of the administrative commands
PermChanges == {150, 0 - 150}
PermLevels == {1}
PermExperiences == {150}
PermMultipliers == {200}
PermNewRoles == {"moderator", "owner"}
\* get_target_user finds the target: the commands that find none are rejected
\* whatever the role
PermFound == {TRUE}

NextPerm ==
    \/ \E r \in AllRoles, f \in PermFound : warn_command(r, f, "given")
    \/ \E r \in AllRoles, f \in PermFound : mute_command(r, f, MUTE_DURATION_DEFAULT, "given")
    \/ \E r \in AllRoles, f \in PermFound : ban_command(r, f, BAN_DURATION_DEFAULT, "given")
    \/ \E r \in AllRoles, f \in PermFound : unwarn_command(r, f)
    \/ \E r \in AllRoles, f \in PermFound : unmute_command(r, f)
    \/ \E r \in AllRoles, f \in PermFound : unban_command(r, f)
    \/ \E r \in AllRoles, f \in PermFound, c \in PermChanges, l \in PermLevels :
           xp_modify_command(r, f, c, l)
    \/ \E r \in AllRoles, f \in PermFound, l \in PermLevels, e \in PermExperiences :
           level_modify_command(r, f, l, e)
    \/ \E r \in AllRoles, f \in PermFound, m \in PermMultipliers :
           multiplier_command(r, f, m, None)
    \/ \E r \in AllRoles, f \in PermFound, n \in PermNewRoles : give_rights_command(r, f, n)
    \/ \E r \in AllRoles, f \in PermFound : remove_rights_command(r, f)

SpecPerm == InitMod /\ [][NextPerm]_vars

(***************************************************************************)
(* The filter specification: messages checked for banned words, between     *)
(* warnings given and punishments lifted by a moderator.                    *)
(***************************************************************************)
NextFilter ==
    \/ Tick
    \/ \E ws \in SUBSET Severities, txt \in BOOLEAN : check_message_for_badwords(ws, txt)
    \/ \E r \in UserRoles, f \in BOOLEAN : warn_command(r, f, "given")
    \/ \E r \in UserRoles, f \in BOOLEAN : unmute_command(r, f)
    \/ \E r \in UserRoles, f \in BOOLEAN : unban_command(r, f)

SpecFilter == InitMod /\ [][NextFilter]_vars

(***************************************************************************)
(* Properties of the moderation state machine.                              *)
(***************************************************************************)
HasTarget == Target \in DOMAIN User
WarnRow == ModerationAction("warn", CallerId, "given", None)
SystemWarnRow == ModerationAction("warn", SYSTEM_ID, "badword", None)
AutoBanRow == ModerationAction("ban", CallerId, "autoban", BAN_DURATION_DEFAULT)
UnwarnRow == ModerationAction("unwarn", CallerId, "none", None)
UnbanRow == ModerationAction("unban", CallerId, "none", None)
Added(row) == CopiesIn(row, moderation_actions') = CopiesIn(row, moderation_actions) + 1
NoneAdded(row) == CopiesIn(row, moderation_actions') = CopiesIn(row, moderation_actions)
Rows(n, row) == [r \in {row} |-> n]

\* C1: in a sequence of warn_command executions the automatic ban fires on
\* the warn that takes the count from below the limit to the limit and on no
\* other: a warn on a user already at or above the limit leaves ban_until
\* alone and records no further 'ban' action.
C1_AutobanEdgeTriggered ==
    [][(HasTarget /\ Added(WarnRow)) =>
         IF User[Target].warns < WARN_LIMIT /\ User'[Target].warns >= WARN_LIMIT
         THEN Added(AutoBanRow) /\ User'[Target].is_banned
         ELSE /\ NoneAdded(AutoBanRow)
              /\ User'[Target].ban_until = User[Target].ban_until
              /\ User'[Target].is_banned = User[Target].is_banned]_vars

\* C2: from 0 warnings and no ban, the first and the second warn_command
\* leave the user not banned, and the third bans the user until the time of
\* that warn plus the default ban duration.
C2_ThreeWarnsBan ==
    [][/\ (HasTarget /\ moderation_actions' \in {Rows(1, WarnRow), Rows(2, WarnRow)})
            => ~User'[Target].is_banned
       /\ (HasTarget /\ moderation_actions = Rows(2, WarnRow) /\ Added(WarnRow))
            => /\ User'[Target].is_banned
               /\ User'[Target].ban_until = now + BAN_DURATION_DEFAULT
               /\ User'[Target].warns = WARN_LIMIT]_vars

C2_Witness ==
    /\ HasTarget
    /\ moderation_actions = Rows(3, WarnRow) (+) Rows(1, AutoBanRow)
    /\ User[Target].warns = WARN_LIMIT
    /\ User[Target].is_banned
    /\ User[Target].ban_until = now + BAN_DURATION_DEFAULT

\* C3: every warning-add that makes the count reach the limit bans the user
\* in the same operation, whether a moderator's /warn or the bad-word
\* filter's system warning added it.
C3_EveryWarnAddEscalates ==
    [][(HasTarget /\ User'[Target].warns = User[Target].warns + 1
                  /\ User'[Target].warns >= WARN_LIMIT)
         => User'[Target].is_banned]_vars

\* C4: unwarn_command lowers warns by exactly 1 and leaves is_banned and
\* ban_until as they were, also when the count drops below the limit; a
\* ban is lifted by unban_command only.
C4_UnwarnKeepsBan ==
    [][/\ (HasTarget /\ Added(UnwarnRow))
            => /\ User'[Target].warns = User[Target].warns - 1
               /\ User'[Target].is_banned = User[Target].is_banned
               /\ User'[Target].ban_until = User[Target].ban_until
       /\ (HasTarget /\ User[Target].is_banned /\ ~User'[Target].is_banned)
            => Added(UnbanRow)]_vars

C4_Witness ==
    /\ HasTarget
    /\ CopiesIn(UnwarnRow, moderation_actions) > 0
    /\ CopiesIn(UnbanRow, moderation_actions) = 0
    /\ User[Target].is_banned
    /\ User[Target].warns < WARN_LIMIT
    /\ CopiesIn(AutoBanRow, moderation_actions) > 0

(***************************************************************************)
(* Properties of the experience engine.                                     *)
(***************************************************************************)
HasRow == Target \in DOMAIN users
Started(t) == task[t].pc = "idle" /\ task'[t].pc # "idle"
Wrote(t) == task[t].pc = "update" /\ task'[t].applied
AdminWrote == admin.pc = "update" /\ admin'.pc = "idle"

\* C5: two message events of one user handled concurrently, the second read
\* before the first has written, never both apply an award.
C5_NoDoubleAward ==
    \A a \in Tasks : \A b \in Tasks \ {a} :
        ~(task[a].applied /\ task[b].applied /\ task[b].raced)

\* C6: a text message of a user whose stored last_xp_time is T, handled at
\* now < T + XP_COOLDOWN, goes to the handler with no write: experience,
\* level, last_xp_time and the message statistics stay as they are; handled
\* at now >= T + XP_COOLDOWN (so always for a user never awarded) it awards,
\* and the award's write sets last_xp_time to the time of the write.
C6_CooldownGate ==
    [][\A t \in Tasks :
        /\ (Started(t) /\ task'[t].event = "text" /\ HasRow) =>
              IF now - users[Target].last_xp_time < XP_COOLDOWN
              THEN /\ task'[t].pc = "handler"
                   /\ users' = users
                   /\ message_stats' = message_stats
              ELSE task'[t].pc = "update"
        /\ (task[t].pc = "handler" /\ ~task[t].applied /\ task'[t].pc = "idle") =>
              (users' = users /\ message_stats' = message_stats)
        /\ Wrote(t) =>
              /\ users'[Target].last_xp_time = now
              /\ users'[Target].experience = task[t].new_exp]_vars

C6_Witness ==
    /\ HasRow
    /\ users[Target].last_xp_time >= StartTime
    /\ now = users[Target].last_xp_time + XP_COOLDOWN - 1
    /\ \E t \in Tasks :
          task[t].pc = "handler" /\ task[t].event = "text" /\ ~task[t].applied

\* C7: after the write of every XP award and of every
\* modify_user_experience, the stored level is
\* calculate_level_from_exp(stored experience).
C7_LevelAfterAward ==
    [][((\E t \in Tasks : Wrote(t)) \/ AdminWrote) =>
          users'[Target].level = calculate_level_from_exp(users'[Target].experience)]_vars

C7_Witness ==
    /\ HasRow
    /\ \E t \in Tasks : task[t].pc = "level_up" /\ task[t].new_exp = users[Target].experience
    /\ users[Target].experience >= calculate_required_exp(1)
    /\ users[Target].level = 1

\* C8: after set_user_level(user, L) for L >= 1 the stored level is
\* calculate_level_from_exp(stored experience).
C8_SetLevelConsistent ==
    [][\A l \in TargetLevels : (l >= 1 /\ HasRow /\ set_user_level(l)) =>
          users'[Target].level = calculate_level_from_exp(users'[Target].experience)]_vars

\* C9: a record created on the first event of a user has experience 0 and
\* level calculate_level_from_exp(0).
C9_NewRecordLevel ==
    [][(~HasRow /\ Target \in DOMAIN users') =>
          /\ users'[Target].experience = 0
          /\ users'[Target].level = calculate_level_from_exp(0)]_vars

\* C10: over the inbound events of an existing user, with no administrative
\* experience or level override, the stored experience never decreases and
\* the record is never deleted or created again with the default values.
C10_ExperienceMonotone ==
    [][(HasRow /\ ~admin'.overrode) =>
          /\ Target \in DOMAIN users'
          /\ users'[Target].experience >= users[Target].experience]_vars

(***************************************************************************)
(* Properties of the level function.                                        *)
(***************************************************************************)
\* C11: for every non-negative e, with L = calculate_level_from_exp(e):
\* calculate_required_exp(L) <= e < calculate_required_exp(L + 1); e and L
\* are the experience and the level modify_user_experience stores.
C11_LevelBrackets ==
    [][AdminWrote =>
         LET e == users'[Target].experience
             L == users'[Target].level
         IN  calculate_required_exp(L) <= e /\ e < calculate_required_exp(L + 1)]_vars

\* C11 as amended: e < calculate_required_exp(L + 1) for every e; the lower
\* bracket calculate_required_exp(L) <= e holds from
\* e = calculate_required_exp(0) on, and below it L is 0.
C11_LevelBracketsFromFloor ==
    [][AdminWrote =>
         LET e == users'[Target].experience
             L == users'[Target].level
         IN  /\ e < calculate_required_exp(L + 1)
             /\ e >= calculate_required_exp(0) => calculate_required_exp(L) <= e
             /\ e < calculate_required_exp(0) => L = 0]_vars

C11_Witness ==
    /\ HasRow
    /\ admin.pc = "idle" /\ admin.overrode
    /\ users[Target].experience = calculate_required_exp(2)
    /\ users[Target].level = 2

\* C12: whenever the stored level is calculate_level_from_exp(experience),
\* the exp_in_level and the exp_needed of get_user_profile are both >= 0.
C12_ProgressNonNegative ==
    (HasRow /\ users[Target].level = calculate_level_from_exp(users[Target].experience))
        => /\ get_user_profile(Target).exp_in_level >= 0
           /\ get_user_profile(Target).exp_needed >= 0

(***************************************************************************)
(* Properties of the multiplier.                                            *)
(***************************************************************************)
\* C13: set_xp_multiplier with a multiplier outside [0.1, 10.0] leaves the
\* stored xp_multiplier (and the rest of the row) unchanged; with one inside,
\* the ends included, the stored xp_multiplier becomes that multiplier.
C13_SetMultiplierBounds ==
    [][\A m \in SetMultipliers : (HasRow /\ set_xp_multiplier(m)) =>
          IF 10 <= m /\ m <= 1000
          THEN users'[Target].xp_multiplier = m
          ELSE users' = users]_vars

C13_Witness ==
    /\ HasRow
    /\ users[Target].xp_multiplier = MIN_XP_MULTIPLIER
    /\ delivered >= 3

\* C14: the /multiplier command rejects every multiplier outside
\* [0.1, 10.0] and then leaves the user's multiplier record unchanged.
C14_CommandRejectsOutOfRange ==
    [][\A r \in UserRoles, f \in BOOLEAN, m \in CommandMultipliers \ {None},
          d \in MultiplierDurations :
          (multiplier_command(r, f, m, d) /\ ~(10 <= m /\ m <= 1000))
              => experience_multipliers' = experience_multipliers]_vars

(***************************************************************************)
(* Properties of the award's write.                                         *)
(***************************************************************************)
\* C15: the step that ends an award's write leaves experience, level and
\* last_xp_time either all three as the award computed them (the write
\* succeeded) or all three as they were (the write failed): no state a
\* reader can see has the new experience with the old level.
C15_AwardCommitsTogether ==
    [][\A t \in Tasks : (task[t].pc = "update" /\ task'[t].pc # "update") =>
          LET old == users[Target]
              new == users'[Target]
          IN  \/ /\ new.experience = task[t].new_exp
                 /\ new.level = task[t].new_level
                 /\ new.last_xp_time = now
                 /\ task'[t].applied
              \/ /\ new.experience = old.experience
                 /\ new.level = old.level
                 /\ new.last_xp_time = old.last_xp_time
                 /\ task'[t].pc = "raised"]_vars

C15_Witness ==
    /\ HasRow
    /\ \E t \in Tasks :
          /\ task[t].pc = "raised"
          /\ task[t].new_level > users[Target].level
          /\ users[Target].experience = task[t].current_exp
          /\ users[Target].last_xp_time < now

(***************************************************************************)
(* Properties of the step-wise warn_command.                                *)
(***************************************************************************)
\* C16: when a warn reaches the limit and the ban write or its commit
\* fails, the warning increment of that command is not persisted either: a
\* warn_command that ends after its limit test leaves the user banned or
\* the count below the one it wrote.
C16_EscalationAtomic ==
    [][\A w \in WarnTasks :
          (warn_task[w].pc = "autoban" /\ warn_task'[w].pc = "idle")
              => \/ User'[Target].is_banned
                 \/ User'[Target].warns < warn_task[w].new_warns]_vars

\* C17: once all concurrently handled warn commands have completed, the
\* stored warns is the initial 0 plus the number of warnings recorded: no
\* increment is lost.
C17_NoLostWarn ==
    (HasTarget /\ \A w \in WarnTasks : warn_task[w].pc = "idle")
        => User[Target].warns = CopiesIn(WarnRow, moderation_actions)

(***************************************************************************)
(* Properties of the experience engine under administrative changes.        *)
(***************************************************************************)
\* C18: an award and a modify_user_experience that both read the same
\* experience leave, after both writes, that experience plus the award plus
\* the change (no clamping at 0): the later write keeps the earlier one.
C18_AwardAndModifySerial ==
    [][\A t \in Tasks :
          (/\ AdminWrote
           /\ admin.new_exp > 0
           /\ task[t].applied
           /\ task[t].current_exp = admin.current_exp
           /\ users[Target].experience = task[t].new_exp)
          => users'[Target].experience =
                 task[t].new_exp + (admin.new_exp - admin.current_exp)]_vars

\* C19: modify_user_experience and set_user_level leave the user's
\* last_xp_time unchanged.
C19_AdminKeepsLastXpTime ==
    [][(HasRow /\ (AdminWrote \/ \E l \in TargetLevels : set_user_level(l)))
          => users'[Target].last_xp_time = users[Target].last_xp_time]_vars

\* C20: an award reads the stored level, and after its write handle_level_up
\* runs if and only if the level written is strictly greater than the level
\* read; handle_level_up runs after nothing but an award's write, so a gated
\* message and a level-preserving award emit no level-up.
C20_LevelUpEvent ==
    [][\A t \in Tasks :
          /\ (Started(t) /\ task'[t].pc = "update")
                => task'[t].current_level = users[Target].level
          /\ Wrote(t)
                => (task'[t].pc = "level_up"
                       <=> users'[Target].level > task[t].current_level)
          /\ (task[t].pc # "level_up" /\ task'[t].pc = "level_up") => Wrote(t)]_vars

C20_Witness ==
    /\ HasRow
    /\ \E t \in Tasks :
          /\ task[t].pc = "level_up"
          /\ task[t].current_level = 0
          /\ task[t].new_level = 1
          /\ users[Target].level = 1
          /\ users[Target].experience = task[t].new_exp

(***************************************************************************)
(* Properties of the award's amount and of rejected requests.               *)
(***************************************************************************)
\* C21: the amount a of a non-gated award is floor(base_xp * xp_multiplier)
\* (100 * a <= base_xp * multiplier < 100 * (a + 1), the multiplier in
\* hundredths), never negative, at most 200 for a multiplier in [0.1, 10.0],
\* and 20 for multiplier 2.0 and base 10; the write stores the experience
\* read plus that amount.
C21_AwardIsFloor ==
    [][\A t \in Tasks :
          /\ \A b \in AwardBases :
                (ReceiveMessage(t, "text", b) /\ task'[t].pc = "update") =>
                    LET m == users[Target].xp_multiplier
                        a == task'[t].new_exp - users[Target].experience
                    IN  /\ 100 * a <= b * m
                        /\ b * m < 100 * (a + 1)
                        /\ a >= 0
                        /\ (10 <= m /\ m <= 1000) => a <= 200
                        /\ (m = 200 /\ b = 10) => a = 20
          /\ Wrote(t) => users'[Target].experience = task[t].new_exp]_vars

\* C22: set_user_level with a level below 1 is rejected: the user's row
\* (experience, level, last_xp_time and the rest) is left as it was.
C22_InvalidLevelRejected ==
    [][\A l \in AwardLevels : (l < 1 /\ set_user_level(l)) =>
          /\ users' = users
          /\ admin' = admin]_vars

C22_Witness ==
    /\ HasRow
    /\ delivered = 2
    /\ ~admin.overrode
    /\ message_stats = 0
    /\ \A t \in Tasks : task[t].pc = "idle"
    /\ users[Target].xp_multiplier = DEFAULT_XP_MULTIPLIER
    /\ users[Target].join_date = now

\* C23: when the stored level differs from
\* calculate_level_from_exp(stored experience), get_user_profile reports the
\* level recomputed from the experience.
C23_ProfileRecomputesLevel ==
    (HasRow /\ users[Target].level # calculate_level_from_exp(users[Target].experience))
        => get_user_profile(Target).level
               = calculate_level_from_exp(users[Target].experience)

\* C24: calculate_level_from_exp is non-decreasing and never negative: for
\* the experience a that modify_user_experience read and the experience
\* b >= a it wrote, the level of a is at most the level stored for b, and
\* that level is >= 0.
C24_LevelMonotone ==
    [][(AdminWrote /\ admin.current_exp <= admin.new_exp) =>
          /\ users'[Target].experience = admin.new_exp
          /\ calculate_level_from_exp(admin.current_exp) <= users'[Target].level
          /\ users'[Target].level >= 0
          /\ calculate_level_from_exp(admin.current_exp) >= 0]_vars

C24_Witness ==
    /\ HasRow
    /\ admin.pc = "idle" /\ admin.overrode
    /\ users[Target].experience = calculate_required_exp(1)
    /\ users[Target].level = 1

\* C25: the stored experience is never negative, and neither is the
\* experience modify_user_experience is about to write: a negative change
\* larger than the total clamps to 0.
C25_ExperienceNonNegative ==
    /\ HasRow => users[Target].experience >= 0
    /\ admin.pc = "update" => admin.new_exp >= 0
    /\ \A t \in Tasks : task[t].pc = "update" => task[t].new_exp >= 0

C25_Witness ==
    /\ HasRow
    /\ admin.pc = "update"
    /\ admin.current_exp = XP_PER_MESSAGE_MIN
    /\ admin.new_exp = 0

\* C26: a user whose stored level is >= 25 has can_use_stickers = TRUE.
C26_StickersAtLevel ==
    (HasRow /\ users[Target].level >= STICKER_UNLOCK_LEVEL)
        => users[Target].can_use_stickers

\* C27: the warning count is never negative; unwarn_command on a user with
\* 0 warnings changes nothing, and otherwise, when it acts, lowers the count
\* by exactly 1.
C27_WarnsNonNegative ==
    [][/\ HasTarget => User'[Target].warns >= 0
       /\ \A r \in UserRoles, f \in BOOLEAN :
             (HasTarget /\ unwarn_command(r, f)) =>
                 IF User[Target].warns = 0
                 THEN UNCHANGED modVars
                 ELSE (modVars' # modVars) =>
                          User'[Target].warns = User[Target].warns - 1]_vars

C27_Witness ==
    /\ HasTarget
    /\ User[Target].warns = 0
    /\ CopiesIn(UnwarnRow, moderation_actions) = 1
    /\ CopiesIn(WarnRow, moderation_actions) = 1
    /\ BagCardinality(moderation_actions) = 2

\* C28: the level stored after an award's write is >= the level stored
\* before it.
C28_AwardKeepsLevel ==
    [][\A t \in Tasks : Wrote(t) => users'[Target].level >= users[Target].level]_vars

\* C29: create_or_update_user for a user that exists leaves experience,
\* level, last_xp_time, xp_multiplier, can_use_stickers and join_date
\* unchanged.
C29_UpsertKeepsProgress ==
    [][\A n \in Usernames : (HasRow /\ AuthMiddleware(n)) =>
          /\ users'[Target].experience = users[Target].experience
          /\ users'[Target].level = users[Target].level
          /\ users'[Target].last_xp_time = users[Target].last_xp_time
          /\ users'[Target].xp_multiplier = users[Target].xp_multiplier
          /\ users'[Target].can_use_stickers = users[Target].can_use_stickers
          /\ users'[Target].join_date = users[Target].join_date]_vars

\* C30: for a command, a message without text, a message of a bot or a
\* message of a user with no row, ExperienceHandler goes to the handler and
\* returns with the users table and the message statistics unchanged.
C30_OnlyPlainTextAwards ==
    [][\A t \in Tasks :
          /\ \A k \in EventKinds, b \in AwardBases :
                (ReceiveMessage(t, k, b) /\ (k # "text" \/ ~HasRow)) =>
                    /\ task'[t].pc = "handler"
                    /\ ~task'[t].applied
                    /\ users' = users
                    /\ message_stats' = message_stats
          /\ (task[t].pc = "handler" /\ ~task[t].applied /\ task'[t].pc # "handler") =>
                    /\ task'[t].pc = "idle"
                    /\ users' = users
                    /\ message_stats' = message_stats]_vars

C30_Witness ==
    /\ HasRow
    /\ CooldownOver(now, users[Target].last_xp_time)
    /\ \E t \in Tasks :
          /\ task[t].pc = "handler"
          /\ task[t].event = "command"
          /\ ~task[t].applied

(***************************************************************************)
(* Properties of the handler call.                                          *)
(***************************************************************************)
\* C31: when no persistence error is raised, every invocation of
\* ExperienceHandler calls the downstream handler exactly once and returns:
\* an event received goes either straight to the handler (skipped, gated) or
\* to the award; the handler is reached after an award only once the write
\* and the statistics are done; the invocation ends by the handler's return
\* and in no other way; and every invocation that started reaches the
\* handler and then returns.
C31_HandlerExactlyOnce ==
    /\ [][\A t \in Tasks :
             /\ (\E k \in EventKinds, b \in BaseXps : ReceiveMessage(t, k, b))
                    => task'[t].pc \in {"handler", "update"}
             /\ (task[t].pc \notin {"idle", "handler"} /\ task'[t].pc = "handler")
                    => /\ task[t].pc = "stats"
                       /\ task[t].applied
                       /\ message_stats' = message_stats + 1
             /\ (task[t].pc # "idle" /\ task'[t].pc = "idle")
                    => /\ task[t].pc = "handler"
                       /\ CallHandler(t)
             /\ (task[t].pc = "handler" /\ task'[t] # task[t])
                    => task'[t] = IdleTask]_vars
    /\ \A t \in AwardTasks : (task[t].pc # "idle") ~> (task[t].pc = "handler")
    /\ \A t \in AwardTasks : (task[t].pc = "handler") ~> (task[t].pc = "idle")

C31_Witness ==
    /\ HasRow
    /\ \E t \in Tasks :
          /\ task[t].pc = "handler"
          /\ task[t].event = "text"
          /\ task[t].applied
          /\ users[Target].experience = task[t].new_exp
          /\ message_stats = 2

C33_BannedIffActiveBan ==
    /\ [](\A u \in BannedIds :
            LET active == {r \in BagToSet(bans) : r.user_id = u /\ r.is_active}
            IN  /\ is_user_banned(u) <=>
                       \E r \in active : r.unban_date = None \/ now < r.unban_date
                /\ (\A r \in active : r.unban_date # None /\ r.unban_date <= now)
                       => ~is_user_banned(u))
    /\ [][\A u \in BannedIds :
             /\ remove_ban(u) => ~is_user_banned(u)'
             /\ (~is_user_banned(u) /\ is_user_banned(u)')
                    => \E d \in UnbanDates : add_ban(u, d)]_vars

C33_Witness ==
    /\ BagCardinality(bans) = 1
    /\ ~is_user_banned(Target)
    /\ \E r \in BagToSet(bans) :
          /\ r.user_id = Target
          /\ r.is_active
          /\ r.unban_date = now

(***************************************************************************)
(* Properties of the tickets.                                               *)
(***************************************************************************)
HasTicket == TheTicket \in DOMAIN tickets

\* C34: a ticket's status moves only open -> in_progress, open -> closed
\* and in_progress -> closed; 'take' on a ticket that is not open is
\* rejected and changes neither status nor assigned_to; a closed ticket
\* stays closed; a ticket in status in_progress has assigned_to set.
C34_TicketTransitions ==
    [][HasTicket =>
          LET before == tickets[TheTicket]
              after == tickets'[TheTicket]
          IN  /\ (after.status # before.status) =>
                     <<before.status, after.status>> \in
                         {<<"open", "in_progress">>, <<"open", "closed">>,
                          <<"in_progress", "closed">>}
              /\ (before.status = "closed") => (after.status = "closed")
              /\ (after.status = "in_progress") => (after.assigned_to # None)
              /\ \A m \in Moderators, r \in UserRoles :
                     (CallbackRead(m, r, "take") /\ before.status # "open") =>
                         /\ after = before
                         /\ ticket_task'[m].pc = "idle"]_vars

\* C35: of the moderators told that they took the ticket there is exactly
\* one, and assigned_to is that moderator: whoever else pressed 'take' was
\* told the ticket is already taken.
C35_OneTakeWins ==
    \A m \in Moderators :
        (ticket_task[m].told = "taken") =>
            /\ HasTicket
            /\ tickets[TheTicket].assigned_to = m
            /\ \A o \in Moderators \ {m} : ticket_task[o].told # "taken"

ModerationCommand(r, f) ==
    \/ warn_command(r, f, "given")
    \/ mute_command(r, f, MUTE_DURATION_DEFAULT, "given")
    \/ ban_command(r, f, BAN_DURATION_DEFAULT, "given")
    \/ unwarn_command(r, f)
    \/ unmute_command(r, f)
    \/ unban_command(r, f)

AdminCommand(r, f) ==
    \/ \E c \in PermChanges, l \in PermLevels : xp_modify_command(r, f, c, l)
    \/ \E l \in PermLevels, e \in PermExperiences : level_modify_command(r, f, l, e)
    \/ \E m \in PermMultipliers : multiplier_command(r, f, m, None)
    \/ \E n \in PermNewRoles : give_rights_command(r, f, n)
    \/ remove_rights_command(r, f)

\* C37: warn, mute, ban, unwarn, unmute and unban called with a role other
\* than moderator or admin change no stored state; xpmodify, levelmodify,
\* multiplier, give_rights and remove_rights called with a role other than
\* admin change none; and whatever a moderator's moderation command does, the
\* same command of an admin does.
C37_CommandsNeedRole ==
    [][\A f \in PermFound :
          /\ \A r \in AllRoles \ {"moderator", "admin"} :
                 ModerationCommand(r, f)
                     => UNCHANGED <<User, moderation_actions, experience_multipliers, users>>
          /\ \A r \in AllRoles \ {"admin"} :
                 AdminCommand(r, f)
                     => UNCHANGED <<User, moderation_actions, experience_multipliers, users>>
          /\ ModerationCommand("moderator", f) => ModerationCommand("admin", f)]_vars

C37_Witness ==
    /\ HasTarget
    /\ User[Target].role = "moderator"
    /\ User[Target].experience = 150
    /\ User[Target].is_muted
    /\ User[Target].warns = 1
    /\ Target \in DOMAIN experience_multipliers
    /\ BagCardinality(moderation_actions) = 2

(***************************************************************************)
(* Properties of the bad-word filter.                                       *)
(***************************************************************************)
\* the one moderation action the filter records for a punishment
SystemRow(punishment) ==
    CASE punishment = "warn" -> SystemWarnRow
      [] punishment = "mute" ->
            ModerationAction("mute", SYSTEM_ID, "badword", MUTE_DURATION_DEFAULT)
      [] punishment = "ban" ->
            ModerationAction("ban", SYSTEM_ID, "badword", BAN_DURATION_DEFAULT)

====
